---- MODULE Spec2Model ----
(***************************************************************************)
(* Restaurant-costing application: the ingredient routes of the HTTP API,  *)
(* the generic data-access wrapper (PantryView / PantryTable /             *)
(* CreateAndReadDAO) and the ingredient form of the UI.                    *)
(*                                                                         *)
(* JavaScript strings are sequences of one-character strings; JavaScript   *)
(* values that may be of several types are records [t, s, w, m]: t the     *)
(* typeof, s the content of a string, w + m/1000 the value of a number.    *)
(***************************************************************************)
EXTENDS Integers, Sequences, FiniteSets, TLC

(* ------------------------------ bounds -------------------------------- *)
MaxRows == 2
MaxPathLen == 2
MaxArrayLen == 1

(* ------------------------ program constants --------------------------- *)
NumericPrecision == 10
NumericScale == 2

VARIABLES
    entity,       \* ids of the rows of table entity
    ingredient,   \* rows of table ingredient, in id order (id SERIAL)
    req,          \* the HTTP request received and not yet handled
    post,         \* the POST /ingredient handler suspended at its await
    resp,         \* the HTTP response sent since the last request was received
    criteria,     \* the criteria argument of the data-access call
    dao,          \* the data-access call made, its result, the table call it issued
    formData,     \* ingredient form: the four field values
    errors,       \* ingredient form: the inline error of each field
    isSubmitting, \* ingredient form: a submission is in progress
    submitMessage,\* ingredient form: the notice displayed
    fetch         \* ingredient form: handleSubmit suspended at an await

apiVars == <<entity, ingredient, req, post, resp>>
daoVars == <<criteria, dao>>
formVars == <<formData, errors, isSubmitting, submitMessage, fetch>>
vars == <<apiVars, daoVars, formVars>>

(* --------------------------- JavaScript values ------------------------ *)
Undefined == [t |-> "undefined", s |-> <<>>, w |-> 0, m |-> 0]
Str(x) == [t |-> "string", s |-> x, w |-> 0, m |-> 0]
Num(whole, mills) == [t |-> "number", s |-> <<>>, w |-> whole, m |-> mills]

\* !v
Falsy(v) ==
    \/ v.t = "undefined"
    \/ v.t = "string" /\ v.s = <<>>
    \/ v.t = "number" /\ v.w = 0 /\ v.m = 0

IsWhitespace(c) == c = " "

RECURSIVE TrimStart(_)
TrimStart(s) ==
    IF s # <<>> /\ IsWhitespace(Head(s)) THEN TrimStart(Tail(s)) ELSE s

RECURSIVE TrimEnd(_)
TrimEnd(s) ==
    IF s # <<>> /\ IsWhitespace(s[Len(s)])
    THEN TrimEnd(SubSeq(s, 1, Len(s) - 1))
    ELSE s

\* String.prototype.trim
Trim(s) == TrimEnd(TrimStart(s))

IsDigit(c) == c \in {"0", "1", "2", "3", "4", "5", "6", "7", "8", "9"}

DigitVal(c) ==
    CASE c = "0" -> 0 [] c = "1" -> 1 [] c = "2" -> 2 [] c = "3" -> 3
      [] c = "4" -> 4 [] c = "5" -> 5 [] c = "6" -> 6 [] c = "7" -> 7
      [] c = "8" -> 8 [] c = "9" -> 9

RECURSIVE DigitPrefix(_)
DigitPrefix(s) ==
    IF s # <<>> /\ IsDigit(Head(s)) THEN <<Head(s)>> \o DigitPrefix(Tail(s)) ELSE <<>>

RECURSIVE DigitsValue(_, _)
DigitsValue(s, acc) ==
    IF s = <<>> THEN acc ELSE DigitsValue(Tail(s), acc * 10 + DigitVal(Head(s)))

\* parseInt(s): leading whitespace is skipped, an optional sign is read, then the
\* longest prefix of decimal digits; NaN when that prefix is empty.
ParseInt(s) ==
    LET t == TrimStart(s)
        neg == t # <<>> /\ Head(t) = "-"
        u == IF t # <<>> /\ Head(t) \in {"-", "+"} THEN Tail(t) ELSE t
        d == DigitPrefix(u)
    IN  IF d = <<>>
        THEN [nan |-> TRUE, n |-> 0]
        ELSE [nan |-> FALSE, n |-> IF neg THEN 0 - DigitsValue(d, 0) ELSE DigitsValue(d, 0)]

RECURSIVE Pow10(_)
Pow10(n) == IF n = 0 THEN 1 ELSE 10 * Pow10(n - 1)

(* ------------------------------ schema -------------------------------- *)
NoRow == [id |-> 0, name |-> <<>>, unit |-> <<>>,
          cost_per_unit |-> [w |-> 0, m |-> 0], vendor_id |-> 0]

\* cost_per_unit NUMERIC(10,2): a non-negative number w + m/1000 is rounded to
\* two decimals (half away from zero); ok is FALSE on numeric field overflow.
NumericStore(v) ==
    LET h == (v.m + 5) \div 10
        w2 == IF h = 100 THEN v.w + 1 ELSE v.w
        h2 == IF h = 100 THEN 0 ELSE h
    IN  [ok |-> w2 < Pow10(NumericPrecision - NumericScale),
         val |-> [w |-> w2, m |-> h2 * 10]]

\* db.entity.findOne(id)
EntityFindOne(id) == id \in entity

\* table.findOne(id) on a table whose rows are `rows`
FindOne(rows, id) ==
    IF \E i \in 1..Len(rows) : rows[i].id = id
    THEN rows[CHOOSE i \in 1..Len(rows) : rows[i].id = id]
    ELSE NoRow

(* ------------------------- POST /ingredient --------------------------- *)
NameValues ==
    {Undefined, Num(5, 0), Str(<<>>), Str(<<" ">>), Str(<<"a">>), Str(<<" ", "a", " ">>)}
UnitValues == {Undefined, Num(1, 0), Str(<<>>), Str(<<"g">>)}
CostValues ==
    {Undefined, Str(<<"1">>), Num(-1, 0), Num(0, 0), Num(2, 500), Num(2, 555),
     Num(Pow10(NumericPrecision - NumericScale) - 1, 995)}
VendorValues == {Undefined, Str(<<"1">>), Num(-1, 0), Num(0, 0), Num(1, 0), Num(2, 0)}

Bodies == [name : NameValues, unit : UnitValues,
           cost_per_unit : CostValues, vendor_id : VendorValues]

NoBody == [name |-> Undefined, unit |-> Undefined,
           cost_per_unit |-> Undefined, vendor_id |-> Undefined]

MsgMissing == "Missing required fields: name, unit, cost_per_unit, vendor_id"
MsgStrings == "Name and unit must be strings"
MsgCost == "Cost per unit must be a positive number"
MsgVendorId == "Vendor ID must be a positive number"
MsgVendorNotFound == "Vendor not found"
MsgCreated == "Ingredient created successfully"
MsgInternal == "Internal server error"
MsgInvalidId == "Invalid ingredient ID"
MsgNotFound == "Ingredient not found"

\* RequiredFieldsMissing with the test of unit left out.
RequiredFieldsMissingNoUnit(b) ==
    \/ Falsy(b.name)
    \/ b.cost_per_unit.t = "undefined"
    \/ Falsy(b.vendor_id)

\* if (!name || !unit || cost_per_unit === undefined || !vendor_id)
RequiredFieldsMissing(b) ==
    \/ Falsy(b.name)
    \/ Falsy(b.unit)
    \/ b.cost_per_unit.t = "undefined"
    \/ Falsy(b.vendor_id)

\* if (typeof name !== 'string' || typeof unit !== 'string')
NotStrings(b) == b.name.t # "string" \/ b.unit.t # "string"

\* if (typeof cost_per_unit !== 'number' || cost_per_unit < 0)
BadCost(b) == b.cost_per_unit.t # "number" \/ b.cost_per_unit.w < 0

\* if (typeof vendor_id !== 'number' || vendor_id <= 0)
BadVendorId(b) ==
    \/ b.vendor_id.t # "number"
    \/ b.vendor_id.w < 0
    \/ b.vendor_id.w = 0 /\ b.vendor_id.m = 0

\* The synchronous checks of the handler, in order; "" when all pass.
ValidationMessage(b) ==
    IF RequiredFieldsMissing(b) THEN MsgMissing
    ELSE IF NotStrings(b) THEN MsgStrings
    ELSE IF BadCost(b) THEN MsgCost
    ELSE IF BadVendorId(b) THEN MsgVendorId
    ELSE ""

Response(op, status, message, row, calls) ==
    [op |-> op, status |-> status, message |-> message, row |-> row, calls |-> calls]

NoResp == Response("none", 0, "", NoRow, <<>>)

IdleFrame == [pc |-> "idle", body |-> NoBody, vendor |-> FALSE, calls |-> <<>>]

NoReq == [kind |-> "none", body |-> NoBody, path |-> <<>>]

\* InsertedRow with the name inserted as submitted (no trim).
InsertedRowUntrimmed(b) ==
    [id |-> Len(ingredient) + 1,
     name |-> b.name.s,
     unit |-> b.unit.s,
     cost_per_unit |-> NumericStore(b.cost_per_unit).val,
     vendor_id |-> b.vendor_id.w]

\* The row db.ingredient.insert persists and returns for the handler's object.
InsertedRow(b) ==
    [id |-> Len(ingredient) + 1,
     name |-> Trim(b.name.s),
     unit |-> b.unit.s,
     cost_per_unit |-> NumericStore(b.cost_per_unit).val,
     vendor_id |-> b.vendor_id.w]

\* A client's POST /ingredient with JSON body b reaches the router.
ReceivePost(b) ==
    /\ req.kind = "none"
    /\ post.pc = "idle"
    /\ Len(ingredient) < MaxRows
    /\ req' = [kind |-> "POST", body |-> b, path |-> <<>>]
    /\ resp' = NoResp
    /\ UNCHANGED <<entity, ingredient, post>>
    /\ UNCHANGED <<daoVars, formVars>>

\* The handler from the request up to `await db.entity.findOne(vendor_id)`.
PostStart ==
    /\ req.kind = "POST"
    /\ req' = NoReq
    /\ IF ValidationMessage(req.body) # ""
       THEN /\ resp' = Response("POST", 400, ValidationMessage(req.body), NoRow, <<>>)
            /\ post' = post
       ELSE /\ post' = [pc |-> "awaitVendor", body |-> req.body,
                        vendor |-> EntityFindOne(req.body.vendor_id.w),
                        calls |-> <<"entity.findOne">>]
            /\ resp' = resp
    /\ UNCHANGED <<entity, ingredient>>
    /\ UNCHANGED <<daoVars, formVars>>

\* PostFinish as it would be were the lookup and the insert one atomic step:
\* the vendor is looked up again in the table as it is when the insert is made.
PostFinishAtomic ==
    /\ post.pc = "awaitVendor"
    /\ post' = IdleFrame
    /\ UNCHANGED <<entity, req>>
    /\ IF ~EntityFindOne(post.body.vendor_id.w)
       THEN /\ resp' = Response("POST", 400, MsgVendorNotFound, NoRow, post.calls)
            /\ UNCHANGED ingredient
       ELSE LET calls == Append(post.calls, "ingredient.insert")
            IN  IF NumericStore(post.body.cost_per_unit).ok
                THEN /\ ingredient' = Append(ingredient, InsertedRow(post.body))
                     /\ resp' = Response("POST", 201, MsgCreated, InsertedRow(post.body), calls)
                ELSE /\ resp' = Response("POST", 500, MsgInternal, NoRow, calls)
                     /\ UNCHANGED ingredient
    /\ UNCHANGED <<daoVars, formVars>>

\* PostFinish without the `if (!vendor)` early return: it inserts regardless.
PostFinishNoVendorCheck ==
    /\ post.pc = "awaitVendor"
    /\ post' = IdleFrame
    /\ UNCHANGED <<entity, req>>
    /\ LET calls == Append(post.calls, "ingredient.insert")
       IN  IF NumericStore(post.body.cost_per_unit).ok
           THEN /\ ingredient' = Append(ingredient, InsertedRow(post.body))
                /\ resp' = Response("POST", 201, MsgCreated, InsertedRow(post.body), calls)
           ELSE /\ resp' = Response("POST", 500, MsgInternal, NoRow, calls)
                /\ UNCHANGED ingredient
    /\ UNCHANGED <<daoVars, formVars>>

\* The handler from the vendor lookup's result to the response.
PostFinish ==
    /\ post.pc = "awaitVendor"
    /\ post' = IdleFrame
    /\ UNCHANGED <<entity, req>>
    /\ IF ~post.vendor
       THEN /\ resp' = Response("POST", 400, MsgVendorNotFound, NoRow, post.calls)
            /\ UNCHANGED ingredient
       ELSE LET calls == Append(post.calls, "ingredient.insert")
            IN  IF NumericStore(post.body.cost_per_unit).ok
                THEN /\ ingredient' = Append(ingredient, InsertedRow(post.body))
                     /\ resp' = Response("POST", 201, MsgCreated, InsertedRow(post.body), calls)
                ELSE /\ resp' = Response("POST", 500, MsgInternal, NoRow, calls)
                     /\ UNCHANGED ingredient
    /\ UNCHANGED <<daoVars, formVars>>

\* Another client of the database deletes entity row id: PantryTable.destroyOne(id)
\* on table entity, a single statement. No table declares a foreign key to entity.
DestroyOneEntity(id) ==
    /\ id \in entity
    /\ entity' = entity \ {id}
    /\ UNCHANGED <<ingredient, req, post, resp>>
    /\ UNCHANGED <<daoVars, formVars>>

(* ------------------------ GET /ingredient/:id ------------------------- *)
PathChars == {"1", "2", "a", "."}

Paths == UNION {[1..n -> PathChars] : n \in 1..MaxPathLen}

\* The handler's response to GET /ingredient/p when table ingredient holds `rows`.
GetResponse(rows, p) ==
    LET id == ParseInt(p)
    IN  IF id.nan
        THEN Response("GET", 400, MsgInvalidId, NoRow, <<>>)
        ELSE IF FindOne(rows, id.n) = NoRow
             THEN Response("GET", 404, MsgNotFound, NoRow, <<"ingredient.findOne">>)
             ELSE Response("GET", 200, "", FindOne(rows, id.n), <<"ingredient.findOne">>)

\* A client's GET /ingredient/p reaches the router.
ReceiveGet(p) ==
    /\ req.kind = "none"
    /\ req' = [kind |-> "GET", body |-> NoBody, path |-> p]
    /\ resp' = NoResp
    /\ UNCHANGED <<entity, ingredient, post>>
    /\ UNCHANGED <<daoVars, formVars>>

GetById ==
    /\ req.kind = "GET"
    /\ req' = NoReq
    /\ resp' = GetResponse(ingredient, req.path)
    /\ UNCHANGED <<entity, ingredient, post>>
    /\ UNCHANGED <<daoVars, formVars>>

(* ------------------------- data-access layer -------------------------- *)
\* A criteria value is kept as its shape: absent, a scalar, or an array of `len`
\* scalars. hasEmptyArray reads nothing else of it.
Absent == [kind |-> "absent", len |-> 0]
Scalar == [kind |-> "scalar", len |-> 0]
Array(n) == [kind |-> "array", len |-> n]

FieldNames == {"id", "name"}
FieldShapes == {Absent, Scalar} \cup {Array(n) : n \in 0..MaxArrayLen}

\* One record of an `or` / `and` sub-group.
GroupRecords == [FieldNames -> FieldShapes]

\* The `or` / `and` key: absent, or an array of at most one record.
NoGroup == [given |-> FALSE, items |-> <<>>]
Groups == {NoGroup} \cup {[given |-> TRUE, items |-> <<>>]}
              \cup {[given |-> TRUE, items |-> <<g>>] : g \in GroupRecords}

\* SearchCriteria<T> = TableSearchCriteria<T> & NestedSearchCriteria
SearchCriteria == [fields : [FieldNames -> FieldShapes], or : Groups, and : Groups]

NoCriteria == [given |-> FALSE,
               c |-> [fields |-> [f \in FieldNames |-> Absent], or |-> NoGroup, and |-> NoGroup]]

\* The values lodash `some` visits: those of the own keys of the criteria object.
OwnValues(c) ==
    {c.fields[f] : f \in {g \in FieldNames : c.fields[g].kind # "absent"}}
        \cup {Array(Len(grp.items)) : grp \in {g \in {c.or, c.and} : g.given}}

\* some(criteria, (val) => Array.isArray(val) && val.length === 0)
hasEmptyArray(c) == \E val \in OwnValues(c) : val.kind = "array" /\ val.len = 0

\* What the underlying table may answer: a number of rows, or a count.
TableRowCounts == {0, 1}
\* A count is a string or null; null is kept as a sequence that is no string.
Null == <<"null">>
TableCounts ==
    {<<"0">>, <<"3">>, <<"1", "2">>, <<" ", "3">>, Null, <<>>, <<" ">>, <<"a">>, <<"3", "a">>}

\* Number(count) for a count that is null or a string of digits, spaces and
\* letters: null and a string empty after trimming are 0, an optionally signed
\* string of digits (surrounding whitespace ignored) is its value, another is NaN.
Number(count) ==
    LET t == Trim(count)
        neg == t # <<>> /\ Head(t) = "-"
        u == IF t # <<>> /\ Head(t) \in {"-", "+"} THEN Tail(t) ELSE t
    IN  IF count = Null \/ t = <<>>
        THEN [nan |-> FALSE, n |-> 0]
        ELSE IF u # <<>> /\ \A i \in 1..Len(u) : IsDigit(u[i])
             THEN [nan |-> FALSE, n |-> IF neg THEN 0 - DigitsValue(u, 0) ELSE DigitsValue(u, 0)]
             ELSE [nan |-> TRUE, n |-> 0]

\* returned, logged: what CreateAndReadDAO.count returns and whether it logs.
DaoResult(op, called, rows, count) ==
    [op |-> op, tableCalled |-> called, rows |-> rows, count |-> count,
     returned |-> [nan |-> FALSE, n |-> 0], logged |-> FALSE]

DaoIdle == DaoResult("none", FALSE, 0, <<>>)

\* PantryView.find(criteria?)
Find ==
    /\ dao = DaoIdle
    /\ IF criteria.given /\ hasEmptyArray(criteria.c)
       THEN dao' = DaoResult("find", FALSE, 0, <<>>)
       ELSE \E n \in TableRowCounts : dao' = DaoResult("find", TRUE, n, <<>>)
    /\ UNCHANGED criteria
    /\ UNCHANGED <<apiVars, formVars>>

\* PantryView.count(criteria?)
Count ==
    /\ dao = DaoIdle
    /\ IF criteria.given /\ hasEmptyArray(criteria.c)
       THEN dao' = DaoResult("count", FALSE, 0, <<"0">>)
       ELSE \E k \in TableCounts : dao' = DaoResult("count", TRUE, 0, k)
    /\ UNCHANGED criteria
    /\ UNCHANGED <<apiVars, formVars>>

\* PantryTable.update(criteria, updates)
Update ==
    /\ dao = DaoIdle
    /\ criteria.given
    /\ IF hasEmptyArray(criteria.c)
       THEN dao' = DaoResult("update", FALSE, 0, <<>>)
       ELSE \E n \in TableRowCounts : dao' = DaoResult("update", TRUE, n, <<>>)
    /\ UNCHANGED criteria
    /\ UNCHANGED <<apiVars, formVars>>

\* PantryTable.destroy(criteria)
Destroy ==
    /\ dao = DaoIdle
    /\ criteria.given
    /\ IF hasEmptyArray(criteria.c)
       THEN dao' = DaoResult("destroy", FALSE, 0, <<>>)
       ELSE \E n \in TableRowCounts : dao' = DaoResult("destroy", TRUE, n, <<>>)
    /\ UNCHANGED criteria
    /\ UNCHANGED <<apiVars, formVars>>

\* CreateAndReadDAO.count(db, criteria?): table.count(criteria), Number(count),
\* console.error when the number is NaN, return the number.
DaoCount ==
    /\ dao = DaoIdle
    /\ LET short == criteria.given /\ hasEmptyArray(criteria.c)
       IN  \E count \in (IF short THEN {<<"0">>} ELSE TableCounts) :
                LET countAsNumber == Number(count)
                IN  dao' = [DaoResult("dao.count", ~short, 0, count)
                                EXCEPT !.returned = countAsNumber,
                                       !.logged = countAsNumber.nan]
    /\ UNCHANGED criteria
    /\ UNCHANGED <<apiVars, formVars>>

(* --------------------------- ingredient form -------------------------- *)
FormFields == {"name", "unit", "cost_per_unit", "vendor_id"}

EmptyForm == [f \in FormFields |-> <<>>]

\* errors: a field's key is absent (NoKey), or holds a text ('' once cleared).
NoKey == "(no key)"
NoErrors == [f \in FormFields |-> NoKey]

ErrNameRequired == "Ingredient name is required"
ErrUnitRequired == "Unit is required"
ErrCostRequired == "Cost per unit is required"
ErrCostInvalid == "Please enter a valid positive number"
ErrVendorRequired == "Vendor is required"

TextSuccess == "Ingredient added successfully!"
TextFallback == "Failed to add ingredient"
TextNetwork == "Network error. Please try again."

NoMessage == [type |-> "none", text |-> ""]
Message(type, text) == [type |-> type, text |-> text]

\* What the user can put into each field.
FieldInputs(f) ==
    CASE f = "name" -> {<<>>, <<" ">>, <<"a">>}
      [] f = "unit" -> {<<>>, <<"g">>}
      [] f = "cost_per_unit" -> {<<>>, <<" ">>, <<"0">>, <<"-", "1">>, <<"a">>}
      [] f = "vendor_id" -> {<<>>, <<"1">>}

RECURSIVE AllZero(_)
AllZero(s) == s = <<>> \/ (Head(s) = "0" /\ AllZero(Tail(s)))

\* parseFloat(s): leading whitespace, an optional sign, digits, an optional
\* fraction; NaN when no digit is read. Kept: whether it is NaN, whether it is < 0.
ParseFloat(s) ==
    LET t == TrimStart(s)
        neg == t # <<>> /\ Head(t) = "-"
        u == IF t # <<>> /\ Head(t) \in {"-", "+"} THEN Tail(t) ELSE t
        d == DigitPrefix(u)
        rest == SubSeq(u, Len(d) + 1, Len(u))
        frac == IF rest # <<>> /\ Head(rest) = "." THEN DigitPrefix(Tail(rest)) ELSE <<>>
    IN  [nan |-> d = <<>> /\ frac = <<>>,
         negative |-> neg /\ ~(AllZero(d) /\ AllZero(frac))]

\* validateForm with the test of unit left out.
NewErrorsNoUnit(fd) ==
    [f \in FormFields |->
        CASE f = "name" -> IF Trim(fd.name) = <<>> THEN ErrNameRequired ELSE NoKey
          [] f = "unit" -> NoKey
          [] f = "cost_per_unit" ->
                IF Trim(fd.cost_per_unit) = <<>> THEN ErrCostRequired
                ELSE IF ParseFloat(fd.cost_per_unit).nan \/ ParseFloat(fd.cost_per_unit).negative
                     THEN ErrCostInvalid
                     ELSE NoKey
          [] f = "vendor_id" -> IF fd.vendor_id = <<>> THEN ErrVendorRequired ELSE NoKey]

\* validateForm: the newErrors object it builds.
NewErrors(fd) ==
    [f \in FormFields |->
        CASE f = "name" -> IF Trim(fd.name) = <<>> THEN ErrNameRequired ELSE NoKey
          [] f = "unit" -> IF fd.unit = <<>> THEN ErrUnitRequired ELSE NoKey
          [] f = "cost_per_unit" ->
                IF Trim(fd.cost_per_unit) = <<>> THEN ErrCostRequired
                ELSE IF ParseFloat(fd.cost_per_unit).nan \/ ParseFloat(fd.cost_per_unit).negative
                     THEN ErrCostInvalid
                     ELSE NoKey
          [] f = "vendor_id" -> IF fd.vendor_id = <<>> THEN ErrVendorRequired ELSE NoKey]

\* validateForm's return value: Object.keys(newErrors).length === 0
ValidateForm(fd) == \A f \in FormFields : NewErrors(fd)[f] = NoKey

\* The body of a non-2xx response: JSON or not, with a message or not.
ErrorBodies ==
    {[parsable |-> FALSE, message |-> NoKey],
     [parsable |-> TRUE, message |-> NoKey],
     [parsable |-> TRUE, message |-> ""],
     [parsable |-> TRUE, message |-> MsgVendorNotFound]}

FetchIdle == [pc |-> "idle", body |-> [parsable |-> FALSE, message |-> NoKey]]

\* handleInputChange that drops every field's error instead of the edited one's.
HandleInputChangeClearsAll(field, value) ==
    /\ formData' = [formData EXCEPT ![field] = value]
    /\ errors' = IF errors[field] \notin {NoKey, ""}
                 THEN NoErrors
                 ELSE errors
    /\ UNCHANGED <<isSubmitting, submitMessage, fetch>>
    /\ UNCHANGED <<apiVars, daoVars>>

\* handleInputChange(field)(event)
HandleInputChange(field, value) ==
    /\ formData' = [formData EXCEPT ![field] = value]
    /\ errors' = IF errors[field] \notin {NoKey, ""}
                 THEN [errors EXCEPT ![field] = ""]
                 ELSE errors
    /\ UNCHANGED <<isSubmitting, submitMessage, fetch>>
    /\ UNCHANGED <<apiVars, daoVars>>

\* handleSubmit up to `await fetch(...)`; the submit button is disabled while
\* isSubmitting.
Submit ==
    /\ ~isSubmitting
    /\ fetch.pc = "idle"
    /\ errors' = NewErrors(formData)
    /\ IF ValidateForm(formData)
       THEN /\ isSubmitting' = TRUE
            /\ submitMessage' = NoMessage
            /\ fetch' = [fetch EXCEPT !.pc = "fetching"]
       ELSE UNCHANGED <<isSubmitting, submitMessage, fetch>>
    /\ UNCHANGED formData
    /\ UNCHANGED <<apiVars, daoVars>>

\* fetch resolves with response.ok: setSubmitMessage(success), then handleClear()
\* (whose setSubmitMessage(null) is the last update), then the finally block.
FetchResolveOk ==
    /\ fetch.pc = "fetching"
    /\ LET afterSet == Message("success", TextSuccess)
           afterClear == NoMessage
       IN  submitMessage' = afterClear
    /\ formData' = EmptyForm
    /\ errors' = NoErrors
    /\ isSubmitting' = FALSE
    /\ fetch' = FetchIdle
    /\ UNCHANGED <<apiVars, daoVars>>

\* fetch resolves with a non-2xx response: `await response.json()` begins.
FetchResolveNotOk(body) ==
    /\ fetch.pc = "fetching"
    /\ fetch' = [pc |-> "parsing", body |-> body]
    /\ UNCHANGED <<formData, errors, isSubmitting, submitMessage>>
    /\ UNCHANGED <<apiVars, daoVars>>

\* JsonSettle without the finally block: a rejected response.json() leaves
\* handleSubmit through its catch block with isSubmitting still true.
JsonSettleNoFinally ==
    /\ fetch.pc = "parsing"
    /\ submitMessage' =
          IF fetch.body.parsable
          THEN Message("error", IF fetch.body.message \in {NoKey, ""}
                                THEN TextFallback
                                ELSE fetch.body.message)
          ELSE Message("error", TextNetwork)
    /\ isSubmitting' = ~fetch.body.parsable
    /\ fetch' = FetchIdle
    /\ UNCHANGED <<formData, errors>>
    /\ UNCHANGED <<apiVars, daoVars>>

\* response.json() settles: the else branch, or the catch block when it rejects.
JsonSettle ==
    /\ fetch.pc = "parsing"
    /\ submitMessage' =
          IF fetch.body.parsable
          THEN Message("error", IF fetch.body.message \in {NoKey, ""}
                                THEN TextFallback
                                ELSE fetch.body.message)
          ELSE Message("error", TextNetwork)
    /\ isSubmitting' = FALSE
    /\ fetch' = FetchIdle
    /\ UNCHANGED <<formData, errors>>
    /\ UNCHANGED <<apiVars, daoVars>>

\* fetch rejects (network failure): the catch block, then the finally block.
FetchReject ==
    /\ fetch.pc = "fetching"
    /\ submitMessage' = Message("error", TextNetwork)
    /\ isSubmitting' = FALSE
    /\ fetch' = FetchIdle
    /\ UNCHANGED <<formData, errors>>
    /\ UNCHANGED <<apiVars, daoVars>>

\* handleClear from the Clear button, disabled while isSubmitting.
HandleClear ==
    /\ ~isSubmitting
    /\ formData' = EmptyForm
    /\ errors' = NoErrors
    /\ submitMessage' = NoMessage
    /\ UNCHANGED <<isSubmitting, fetch>>
    /\ UNCHANGED <<apiVars, daoVars>>

\* The alert's onClose.
CloseAlert ==
    /\ submitMessage # NoMessage
    /\ submitMessage' = NoMessage
    /\ UNCHANGED <<formData, errors, isSubmitting, fetch>>
    /\ UNCHANGED <<apiVars, daoVars>>

(* --------------------------- specifications --------------------------- *)
EntityIds == {1}

InitApi ==
    /\ entity = EntityIds
    /\ ingredient = <<>>
    /\ req = NoReq
    /\ post = IdleFrame
    /\ resp = NoResp

InitDao ==
    /\ criteria = NoCriteria
    /\ dao = DaoIdle

NextApi ==
    \/ \E b \in Bodies : ReceivePost(b)
    \/ PostStart
    \/ PostFinish
    \/ \E p \in Paths : ReceiveGet(p)
    \/ GetById

NextDao ==
    \/ Find
    \/ Count
    \/ Update
    \/ Destroy
    \/ DaoCount

InitForm ==
    /\ formData = EmptyForm
    /\ errors = NoErrors
    /\ isSubmitting = FALSE
    /\ submitMessage = NoMessage
    /\ fetch = FetchIdle

NextForm ==
    \/ \E f \in FormFields : \E v \in FieldInputs(f) : HandleInputChange(f, v)
    \/ Submit
    \/ FetchResolveOk
    \/ \E body \in ErrorBodies : FetchResolveNotOk(body)
    \/ JsonSettle
    \/ FetchReject
    \/ HandleClear
    \/ CloseAlert

Init == InitApi /\ InitDao /\ InitForm

\* The HTTP API serving clients one request at a time, no entity deleted.
SpecApi == Init /\ [][NextApi]_vars

\* The HTTP API and a concurrent client of the database that deletes entity rows.
NextRace ==
    \/ \E b \in Bodies : ReceivePost(b)
    \/ PostStart
    \/ PostFinish
    \/ \E p \in Paths : ReceiveGet(p)
    \/ GetById
    \/ \E id \in EntityIds : DestroyOneEntity(id)

SpecRace == Init /\ [][NextRace]_vars

\* One call of the data-access layer, on any criteria.
InitAnyCriteria ==
    /\ InitApi
    /\ InitForm
    /\ dao = DaoIdle
    /\ criteria \in {NoCriteria} \cup {[given |-> TRUE, c |-> c] : c \in SearchCriteria}

SpecDao == InitAnyCriteria /\ [][NextDao]_vars

\* The ingredient form, its user and the responses to its submissions.
SpecForm == Init /\ [][NextForm]_vars

\* The fetch promise settles: resolved with a 2xx or a non-2xx response, or rejected.
FetchSettle ==
    \/ FetchResolveOk
    \/ \E body \in ErrorBodies : FetchResolveNotOk(body)
    \/ FetchReject

\* The ingredient form when every promise handleSubmit awaits settles, after
\* which the event loop runs the continuation of handleSubmit.
SpecFormLive == SpecForm /\ WF_vars(FetchSettle) /\ WF_vars(JsonSettle)

(* ====================== claims on the HTTP API ======================== *)
DigitChar(d) ==
    CASE d = 0 -> "0" [] d = 1 -> "1" [] d = 2 -> "2" [] d = 3 -> "3"
      [] d = 4 -> "4" [] d = 5 -> "5" [] d = 6 -> "6" [] d = 7 -> "7"
      [] d = 8 -> "8" [] d = 9 -> "9"

\* The decimal text of a positive id, as a client writes it into the path.
RECURSIVE IdPath(_)
IdPath(n) == IF n < 10 THEN <<DigitChar(n)>> ELSE IdPath(n \div 10) \o <<DigitChar(n % 10)>>

Spaces(n) == [i \in 1..n |-> " "]

\* t is s with its surrounding whitespace removed.
IsTrimOf(t, s) ==
    /\ t = <<>> \/ (t[1] # " " /\ t[Len(t)] # " ")
    /\ \E i \in 0..Len(s) : \E j \in 0..Len(s) : s = Spaces(i) \o t \o Spaces(j)

\* name and unit are strings, cost_per_unit a number >= 0, vendor_id a number > 0.
WellTyped(b) ==
    /\ b.name.t = "string"
    /\ b.unit.t = "string"
    /\ b.cost_per_unit.t = "number" /\ b.cost_per_unit.w >= 0
    /\ b.vendor_id.t = "number"
    /\ b.vendor_id.w > 0 \/ (b.vendor_id.w = 0 /\ b.vendor_id.m > 0)

\* The GET that follows a 201 returns the row the POST of b described.
RoundTrips(b, r, g) ==
    /\ r.status = 201
    /\ r.row.id > 0
    /\ g.status = 200
    /\ g.row = r.row
    /\ IsTrimOf(g.row.name, b.name.s)
    /\ g.row.unit = b.unit.s
    /\ g.row.cost_per_unit = [w |-> b.cost_per_unit.w, m |-> b.cost_per_unit.m]
    /\ g.row.vendor_id = b.vendor_id.w /\ b.vendor_id.m = 0

PostStartAccepts(b) == post'.pc = "awaitVendor" /\ post'.body = b /\ post'.vendor


\* C1 as stated: every POST whose name and unit are strings, whose cost_per_unit
\* is a number >= 0 and whose vendor_id is a positive number naming an existing
\* entity row is answered 201 with the created row, and GET /ingredient/:id with
\* the returned id answers 200 with the trimmed name and the submitted unit,
\* cost_per_unit and vendor_id.
C1_AsStated ==
    [][/\ (PostStart /\ WellTyped(req.body) /\ req.body.vendor_id.w \in entity)
                => PostStartAccepts(req.body)
       /\ (PostFinish /\ WellTyped(post.body) /\ post.body.vendor_id.w \in entity)
                => RoundTrips(post.body, resp', GetResponse(ingredient', IdPath(resp'.row.id)))
      ]_vars

\* The payloads C1 holds for: name and unit are moreover non-empty, and
\* cost_per_unit is a value NUMERIC(10,2) represents exactly.
WellFormed(b) ==
    /\ WellTyped(b)
    /\ b.name.s # <<>>
    /\ b.unit.s # <<>>
    /\ b.cost_per_unit.m % Pow10(3 - NumericScale) = 0
    /\ b.cost_per_unit.w < Pow10(NumericPrecision - NumericScale)

\* C1 (amended): every POST whose name and unit are non-empty strings, whose
\* cost_per_unit is a number >= 0 with at most two decimals and below 10^8, and
\* whose vendor_id is a positive number naming an existing entity row is answered
\* 201 with the created row, and GET /ingredient/:id with the returned id answers
\* 200 with that row: the name trimmed, unit, cost_per_unit and vendor_id as sent.
C1_RoundTrip ==
    [][/\ (PostStart /\ WellFormed(req.body) /\ req.body.vendor_id.w \in entity)
                => PostStartAccepts(req.body)
       /\ (PostFinish /\ WellFormed(post.body) /\ post.body.vendor_id.w \in entity)
                => RoundTrips(post.body, resp', GetResponse(ingredient', IdPath(resp'.row.id)))
      ]_vars

C1_Witness ==
    /\ resp.op = "POST" /\ resp.status = 201
    /\ resp.row.name = <<"a">>
    /\ resp.row.cost_per_unit = [w |-> 2, m |-> 500]
    /\ GetResponse(ingredient, IdPath(resp.row.id)).status = 200
    /\ GetResponse(ingredient, IdPath(resp.row.id)).row = resp.row

AnyMissing(b) ==
    \/ b.name.t = "undefined"
    \/ b.unit.t = "undefined"
    \/ b.cost_per_unit.t = "undefined"
    \/ b.vendor_id.t = "undefined"

\* C2: a POST whose payload lacks name, unit, cost_per_unit or vendor_id is
\* answered 400 (with the message that enumerates the required fields), issues no
\* database call, and leaves the ingredient rows as they were.
C2_MissingField ==
    [][(PostStart /\ AnyMissing(req.body))
                => /\ resp'.op = "POST" /\ resp'.status = 400
                   /\ resp'.message = MsgMissing
                   /\ resp'.calls = <<>>
                   /\ post'.pc = "idle"
                   /\ ingredient' = ingredient
      ]_vars

C2_Witness ==
    /\ resp.op = "POST" /\ resp.status = 400 /\ resp.message = MsgMissing
    /\ resp.calls = <<>>
    /\ Len(ingredient) > 0

LookupBeforeInsert(calls) ==
    \A i \in 1..Len(calls) :
        calls[i] = "ingredient.insert" => \E j \in 1..(i - 1) : calls[j] = "entity.findOne"

\* C3: a POST whose payload passes the required-field and type checks but whose
\* vendor_id names no entity row is answered 400 "Vendor not found"; the lookup
\* precedes any insert, and no ingredient row is persisted.
C3_VendorNotFound ==
    [][/\ (PostStart /\ ValidationMessage(req.body) = "" /\ req.body.vendor_id.w \notin entity)
                => /\ post'.pc = "awaitVendor" /\ ~post'.vendor
                   /\ post'.calls = <<"entity.findOne">>
                   /\ ingredient' = ingredient
       /\ (PostFinish /\ post.body.vendor_id.w \notin entity)
                => /\ resp'.op = "POST" /\ resp'.status = 400
                   /\ resp'.message = MsgVendorNotFound
                   /\ resp'.calls = <<"entity.findOne">>
                   /\ ingredient' = ingredient
       /\ LookupBeforeInsert(resp'.calls)
      ]_vars

C3_Witness ==
    /\ resp.op = "POST" /\ resp.status = 400 /\ resp.message = MsgVendorNotFound
    /\ resp.calls = <<"entity.findOne">>
    /\ post.pc = "idle"

\* C4: with no entity deletions, every persisted ingredient row has a non-empty
\* name, a cost_per_unit >= 0 and a vendor_id that names an existing entity row.
C4_RowInvariants ==
    \A i \in 1..Len(ingredient) :
        /\ ingredient[i].name # <<>>
        /\ ingredient[i].cost_per_unit.w >= 0
        /\ ingredient[i].vendor_id \in entity

\* The text is an integer literal: an optional sign, then digits only.
IsIntegerText(p) ==
    LET u == IF p # <<>> /\ Head(p) \in {"-", "+"} THEN Tail(p) ELSE p
    IN  u # <<>> /\ \A i \in 1..Len(u) : IsDigit(u[i])

\* C5: GET /ingredient/:id answers 400 "Invalid ingredient ID", without a database
\* lookup, for every id that is not an integer; 404 "Ingredient not found" for an
\* integer id with no row; 200 with the bare row otherwise.
C5_GetById ==
    [][GetById
                => LET p == req.path IN
                   IF ~IsIntegerText(p)
                   THEN /\ resp'.status = 400 /\ resp'.message = MsgInvalidId
                        /\ resp'.calls = <<>>
                   ELSE IF \A i \in 1..Len(ingredient) : ingredient[i].id # DigitsValue(p, 0)
                        THEN resp'.status = 404 /\ resp'.message = MsgNotFound
                        ELSE /\ resp'.status = 200
                             /\ resp'.row.id = DigitsValue(p, 0)
                             /\ \E i \in 1..Len(ingredient) : ingredient[i] = resp'.row
      ]_vars

\* Every field is in the payload with a value: no field is undefined, and a field
\* that is a string is not the empty string.
AllPresent(b) ==
    /\ ~AnyMissing(b)
    /\ \A v \in {b.name, b.unit, b.cost_per_unit, b.vendor_id} : v.t = "string" => v.s # <<>>

\* C7: with all four fields present, the first failing type check decides the 400
\* message: name or unit not a string, then cost_per_unit not a number or
\* negative, then vendor_id not a number or not positive; a cost_per_unit of 0
\* passes the cost check.
C7_TypeMessages ==
    [][(PostStart /\ AllPresent(req.body))
                => LET b == req.body IN
                   /\ (b.name.t # "string" \/ b.unit.t # "string")
                        => resp' = Response("POST", 400, MsgStrings, NoRow, <<>>)
                   /\ (/\ b.name.t = "string" /\ b.unit.t = "string"
                       /\ (b.cost_per_unit.t # "number" \/ b.cost_per_unit.w < 0))
                        => resp' = Response("POST", 400, MsgCost, NoRow, <<>>)
                   /\ (/\ b.name.t = "string" /\ b.unit.t = "string"
                       /\ b.cost_per_unit.t = "number" /\ b.cost_per_unit.w >= 0
                       /\ (b.vendor_id.t # "number" \/ b.vendor_id.w < 0
                           \/ (b.vendor_id.w = 0 /\ b.vendor_id.m = 0)))
                        => resp' = Response("POST", 400, MsgVendorId, NoRow, <<>>)
      ]_vars

\* C11: the vendor lookup and the insert are two steps. A POST whose lookup found
\* the vendor, and whose vendor is deleted before the insert is made, still makes
\* the insert and is answered 201 (when the database accepts the row), leaving a
\* persisted ingredient whose vendor_id names no entity row.
C11_CheckThenInsertRace ==
    [][(/\ PostFinish
        /\ post.vendor
        /\ post.body.vendor_id.w \notin entity
        /\ NumericStore(post.body.cost_per_unit).ok)
            => /\ resp'.op = "POST" /\ resp'.status = 201
               /\ resp'.calls = <<"entity.findOne", "ingredient.insert">>
               /\ ingredient' = Append(ingredient, resp'.row)
               /\ resp'.row.vendor_id = post.body.vendor_id.w
               /\ resp'.row.vendor_id \notin entity'
      ]_vars

C11_Witness ==
    /\ resp.op = "POST" /\ resp.status = 201
    /\ post.pc = "idle"
    /\ \E i \in 1..Len(ingredient) :
            ingredient[i] = resp.row /\ ingredient[i].vendor_id \notin entity

(* ================= claims on the data-access layer ==================== *)
\* Some field of the criteria, at the top level or in a record of an `or` / `and`
\* sub-group, is given an empty set of values.
ContainsEmptySet(c) ==
    \/ \E f \in FieldNames : c.fields[f] = Array(0)
    \/ \E grp \in {c.or, c.and} :
            \E i \in 1..Len(grp.items) : \E f \in FieldNames : grp.items[i][f] = Array(0)

\* C6: find, count, update and destroy, given criteria that contain an empty set
\* of values for a field (at the top level or inside an and/or sub-group), return
\* the empty result (zero for count) and never call the underlying table.
C6_EmptySetShortCircuits ==
    (dao.op # "none" /\ criteria.given /\ ContainsEmptySet(criteria.c))
        => /\ ~dao.tableCalled
           /\ dao.rows = 0
           /\ dao.op = "count" => dao.count = <<"0">>

\* The count is a string that denotes a number: digits, optionally signed and
\* surrounded by whitespace.
IsNumericString(c) ==
    /\ c # Null
    /\ LET t == Trim(c)
           u == IF t # <<>> /\ Head(t) \in {"-", "+"} THEN Tail(t) ELSE t
       IN  u # <<>> /\ \A i \in 1..Len(u) : IsDigit(u[i])

\* C14: the base DAO's count returns the number a numeric-string count denotes,
\* and for every other count (null, a non-numeric string) it logs and returns
\* NaN, not a number.
C14_CountSentinel ==
    dao.op = "dao.count"
        => IF IsNumericString(dao.count)
           THEN ~dao.returned.nan /\ dao.returned = ParseInt(dao.count)
           ELSE dao.returned.nan /\ dao.logged

(* ================== claims on the ingredient form ===================== *)
\* C8: once a submission answered 2xx has been handled, the four fields are
\* empty and the success notice is displayed.
C8_SuccessClearsAndNotifies ==
    [][FetchResolveOk
            => /\ formData' = EmptyForm
               /\ submitMessage' = Message("success", TextSuccess)
      ]_vars

CarriesMessage(body) == body.parsable /\ body.message \notin {NoKey, ""}

\* C9: handling a non-2xx response leaves the four fields as they are and
\* displays an error notice: the server's message when the response carries one,
\* "Failed to add ingredient" otherwise; a network failure leaves the fields as
\* they are and displays the network-error notice.
C9_FailurePreservesInput ==
    [][/\ FetchResolveNotOk(fetch'.body) => formData' = formData
       /\ JsonSettle
            => /\ formData' = formData
               /\ submitMessage' = Message("error", IF CarriesMessage(fetch.body)
                                                    THEN fetch.body.message
                                                    ELSE TextFallback)
       /\ FetchReject
            => /\ formData' = formData
               /\ submitMessage' = Message("error", TextNetwork)
      ]_vars

\* The four client checks: name non-empty after trim, unit non-empty,
\* cost_per_unit non-empty and parsing to a number >= 0, vendor_id non-empty.
NameOk(fd) == \E i \in 1..Len(fd.name) : fd.name[i] # " "
UnitOk(fd) == fd.unit # <<>>
CostOk(fd) ==
    /\ fd.cost_per_unit # <<>>
    /\ ~ParseFloat(fd.cost_per_unit).nan
    /\ ~ParseFloat(fd.cost_per_unit).negative
VendorOk(fd) == fd.vendor_id # <<>>
ClientChecksPass(fd) == NameOk(fd) /\ UnitOk(fd) /\ CostOk(fd) /\ VendorOk(fd)

\* C10: a submit issues the network call exactly when the four client checks
\* pass; when a check fails no call is issued, isSubmitting stays false and each
\* failing field carries its inline error message.
C10_ClientValidation ==
    [][Submit
            => /\ (fetch'.pc = "fetching") <=> ClientChecksPass(formData)
               /\ ~ClientChecksPass(formData)
                    => /\ fetch' = fetch /\ fetch.pc = "idle"
                       /\ ~isSubmitting /\ ~isSubmitting'
                       /\ ~NameOk(formData) => errors'.name = ErrNameRequired
                       /\ ~UnitOk(formData) => errors'.unit = ErrUnitRequired
                       /\ ~CostOk(formData)
                            => errors'.cost_per_unit =
                                  IF Trim(formData.cost_per_unit) = <<>>
                                  THEN ErrCostRequired ELSE ErrCostInvalid
                       /\ ~VendorOk(formData) => errors'.vendor_id = ErrVendorRequired
      ]_vars

C10_Witness ==
    /\ formData = [name |-> <<"a">>, unit |-> <<>>, cost_per_unit |-> <<"0">>,
                   vendor_id |-> <<"1">>]
    /\ errors = [NoErrors EXCEPT !.unit = ErrUnitRequired]
    /\ fetch.pc = "idle"
    /\ ~isSubmitting

\* The two outcomes of a submission: success is the cleared form, error is the
\* error notice.
SuccessOutcome == formData = EmptyForm /\ errors = NoErrors /\ submitMessage.type # "error"
ErrorOutcome == submitMessage.type = "error"

\* C12: a submit of an invalid form leaves the form idle, with errors; a submit of
\* a valid form sets isSubmitting and clears the previous notice before the
\* request; every outcome of the request (2xx, non-2xx, network failure,
\* unparsable error body) ends the submission in the success or the error
\* outcome with isSubmitting false, and a submission in progress eventually ends.
C12_SubmissionStateMachine ==
    /\ [][/\ (Submit /\ ~ValidateForm(formData))
               => /\ ~isSubmitting' /\ fetch'.pc = "idle"
                  /\ \E f \in FormFields : errors'[f] \notin {NoKey, ""}
          /\ (Submit /\ ValidateForm(formData))
               => /\ isSubmitting' /\ submitMessage' = NoMessage
                  /\ fetch'.pc = "fetching"
          /\ (\E body \in ErrorBodies : FetchResolveNotOk(body)) => isSubmitting'
          /\ FetchResolveOk => (~isSubmitting' /\ SuccessOutcome')
          /\ (JsonSettle \/ FetchReject) => (~isSubmitting' /\ ErrorOutcome')
          /\ (isSubmitting /\ ~isSubmitting') => (SuccessOutcome' \/ ErrorOutcome')
         ]_vars
    /\ (isSubmitting ~> (~isSubmitting /\ (SuccessOutcome \/ ErrorOutcome)))

C12_Witness ==
    /\ ~isSubmitting
    /\ fetch.pc = "idle"
    /\ submitMessage = Message("error", MsgVendorNotFound)
    /\ ValidateForm(formData)

\* The field displays a validation error.
HasError(f) == errors[f] \notin {NoKey, ""}

\* C13: editing a field that has a validation error clears that field's error
\* and sets that field's value; the errors and the values of the other three
\* fields are left as they are.
C13_EditClearsOwnError ==
    [][\A f \in FormFields : \A v \in FieldInputs(f) :
            (HandleInputChange(f, v) /\ HasError(f))
                => /\ errors'[f] = ""
                   /\ formData'[f] = v
                   /\ \A g \in FormFields \ {f} :
                            errors'[g] = errors[g] /\ formData'[g] = formData[g]
      ]_vars

C13_Witness ==
    /\ errors.name = "" /\ formData.name = <<"a">>
    /\ errors.unit = ErrUnitRequired /\ formData.unit = <<>>
    /\ errors.cost_per_unit = ErrCostRequired
    /\ errors.vendor_id = ErrVendorRequired

====
